---- MODULE Spec2Model ----
(***************************************************************************)
(* Model of Phaser.GameObjects.Graphics (src/gameobjects/graphics/         *)
(* Graphics.js): a drawable that records drawing calls into a flat command *)
(* buffer, re-applies its style defaults on clear(), and replays the       *)
(* buffer into a canvas on generateTexture().                              *)
(*                                                                         *)
(* JavaScript values are modelled as records [type, op, q, pi, sym]:       *)
(*   type  the typeof of the value ("number", "boolean", "undefined") or   *)
(*         "opcode" for a member of the Commands enumeration;              *)
(*   op    the opcode's name ("" for every other value);                   *)
(*   q,pi  a number is q/4 + pi*PI, so halves and quarters and 2*PI are    *)
(*         exact; a boolean is q = 1 (true) or q = 0 (false);              *)
(*   sym   <<>> for such a number, and <<axis, centre, extent, i, n>> for  *)
(*         the coordinate centre + extent/2 * cos|sin(2*PI*i/n) of an      *)
(*         ellipse boundary point.                                         *)
(***************************************************************************)
EXTENDS Integers, Sequences, FiniteSets, TLC

--------------------------------------------------------------------------
(* Bounds *)

\* number of calls made on the drawable after its construction
MaxCalls == 2

--------------------------------------------------------------------------
(* JavaScript values *)

Quarters(q) == [type |-> "number", op |-> "", q |-> q, pi |-> 0, sym |-> <<>>]

Num(n) == Quarters(4 * n)

Undefined == [type |-> "undefined", op |-> "", q |-> 0, pi |-> 0, sym |-> <<>>]

False == [type |-> "boolean", op |-> "", q |-> 0, pi |-> 0, sym |-> <<>>]

True == [type |-> "boolean", op |-> "", q |-> 1, pi |-> 0, sym |-> <<>>]

\* MATH_CONST.PI2
PI2 == [type |-> "number", op |-> "", q |-> 0, pi |-> 2, sym |-> <<>>]

\* a + b on numbers
Plus(a, b) == [a EXCEPT !.q = a.q + b.q, !.pi = a.pi + b.pi]

\* a - b on numbers
Minus(a, b) == [a EXCEPT !.q = a.q - b.q, !.pi = a.pi - b.pi]

\* a / 2 on numbers (the inputs are multiples of 1/2, so the quotient is exact)
Half(a) == [a EXCEPT !.q = a.q \div 2, !.pi = a.pi \div 2]

\* a < b and a > b on numbers without a PI part
Less(a, b) == a.q < b.q

Greater(a, b) == a.q > b.q

\* ToBoolean(v): undefined, false, 0 are falsy
Truthy(v) == v.type # "undefined" /\ (v.q # 0 \/ v.pi # 0 \/ v.sym # <<>>)

\* if (v === undefined) { v = d; }
Default(v, d) == IF v = Undefined THEN d ELSE v

--------------------------------------------------------------------------
(* Commands: the opcode enumeration *)

Command(name) == [type |-> "opcode", op |-> name, q |-> 0, pi |-> 0, sym |-> <<>>]

Commands ==
    [ARC |-> Command("ARC"), BEGIN_PATH |-> Command("BEGIN_PATH"),
     CLOSE_PATH |-> Command("CLOSE_PATH"), FILL_PATH |-> Command("FILL_PATH"),
     FILL_RECT |-> Command("FILL_RECT"), FILL_TRIANGLE |-> Command("FILL_TRIANGLE"),
     LINE_STYLE |-> Command("LINE_STYLE"), FILL_STYLE |-> Command("FILL_STYLE"),
     STROKE_PATH |-> Command("STROKE_PATH"), STROKE_TRIANGLE |-> Command("STROKE_TRIANGLE"),
     LINE_TO |-> Command("LINE_TO"), MOVE_TO |-> Command("MOVE_TO"),
     LINE_FX_TO |-> Command("LINE_FX_TO"), MOVE_FX_TO |-> Command("MOVE_FX_TO"),
     SAVE |-> Command("SAVE"), RESTORE |-> Command("RESTORE"),
     TRANSLATE |-> Command("TRANSLATE"), SCALE |-> Command("SCALE"),
     ROTATE |-> Command("ROTATE")]

--------------------------------------------------------------------------
(* State *)

VARIABLES
    commandBuffer,       \* this.commandBuffer: the flat array of opcodes and operands
    defaultFillColor,    \* this.defaultFillColor
    defaultFillAlpha,    \* this.defaultFillAlpha
    defaultStrokeWidth,  \* this.defaultStrokeWidth
    defaultStrokeColor,  \* this.defaultStrokeColor
    defaultStrokeAlpha,  \* this.defaultStrokeAlpha
    _lineWidth,          \* this._lineWidth
    position,            \* this.x, this.y
    TargetCamera,        \* Graphics.TargetCamera, shared by all drawables
    textures,            \* sys.textures: key -> texture
    surfaces,            \* the canvases that exist: surfaces[i] is the size of canvas i
    replays,             \* the renderCanvas calls made so far, in order
    lineStyled,          \* the width given to the latest lineStyle call (Undefined: none yet)
    gl,                  \* sys.game.renderer.gl is set (WebGL renderer)
    lastCall,            \* the call that produced this state, its arguments, the error
                         \* it threw, and whether the texture registry raised one in it
    calls,               \* number of calls made so far
    destroyed,           \* preDestroy has run
    constructed,         \* the drawable's fields as they were right after construction
    composed             \* the buffer holds only what style, transform and shape calls wrote

vars == <<commandBuffer, defaultFillColor, defaultFillAlpha, defaultStrokeWidth,
          defaultStrokeColor, defaultStrokeAlpha, _lineWidth, position, TargetCamera,
          textures, surfaces, replays, lineStyled, gl, lastCall, calls, destroyed,
          constructed, composed>>

\* the fields of the drawable that its drawing methods read and write
This ==
    [commandBuffer |-> commandBuffer,
     defaultFillColor |-> defaultFillColor, defaultFillAlpha |-> defaultFillAlpha,
     defaultStrokeWidth |-> defaultStrokeWidth, defaultStrokeColor |-> defaultStrokeColor,
     defaultStrokeAlpha |-> defaultStrokeAlpha, _lineWidth |-> _lineWidth]

\* push with the items put in front of the array (unshift)
pushFront(this, items) == [this EXCEPT !.commandBuffer = items \o @]

\* this.commandBuffer.push(...items)
push(this, items) == [this EXCEPT !.commandBuffer = @ \o items]

--------------------------------------------------------------------------
(* Style *)

\* lineStyle without the assignment to _lineWidth
lineStyleUncached(this, lineWidth, color, alpha) ==
    LET a == Default(alpha, Num(1))
    IN  push(this, <<Commands.LINE_STYLE, lineWidth, color, a>>)

lineStyle(this, lineWidth, color, alpha) ==
    LET a == Default(alpha, Num(1))
    IN  [push(this, <<Commands.LINE_STYLE, lineWidth, color, a>>)
            EXCEPT !._lineWidth = lineWidth]

\* fillStyle without the default for alpha
fillStyleNoDefault(this, color, alpha) ==
    push(this, <<Commands.FILL_STYLE, color, alpha>>)

fillStyle(this, color, alpha) ==
    LET a == Default(alpha, Num(1))
    IN  push(this, <<Commands.FILL_STYLE, color, a>>)

\* GetValue(options, key, defaultValue) for a key whose value is v (Undefined when missing)
GetValue(v, defaultValue) == IF v = Undefined THEN defaultValue ELSE v

\* setDefaultStyles that looks for a fill style only inside the line-style branch
setDefaultStylesNested(this, options) ==
    LET ls == options.lineStyle
        fs == options.fillStyle
        t1 == IF ls.present
              THEN LET w == GetValue(ls.width, Num(1))
                       c == GetValue(ls.color, Num(16777215))
                       a == GetValue(ls.alpha, Num(1))
                   IN  lineStyle([this EXCEPT !.defaultStrokeWidth = w,
                                              !.defaultStrokeColor = c,
                                              !.defaultStrokeAlpha = a], w, c, a)
              ELSE this
    IN  IF ls.present /\ fs.present
        THEN LET c == GetValue(fs.color, Num(16777215))
                 a == GetValue(fs.alpha, Num(1))
             IN  fillStyle([t1 EXCEPT !.defaultFillColor = c,
                                      !.defaultFillAlpha = a], c, a)
        ELSE t1

\* options.lineStyle and options.fillStyle are [present, width, color, alpha]:
\* present is FALSE for a missing (or null) style object
setDefaultStyles(this, options) ==
    LET ls == options.lineStyle
        fs == options.fillStyle
        t1 == IF ls.present
              THEN LET w == GetValue(ls.width, Num(1))
                       c == GetValue(ls.color, Num(16777215))
                       a == GetValue(ls.alpha, Num(1))
                   IN  lineStyle([this EXCEPT !.defaultStrokeWidth = w,
                                              !.defaultStrokeColor = c,
                                              !.defaultStrokeAlpha = a], w, c, a)
              ELSE this
    IN  IF fs.present
        THEN LET c == GetValue(fs.color, Num(16777215))
                 a == GetValue(fs.alpha, Num(1))
             IN  fillStyle([t1 EXCEPT !.defaultFillColor = c,
                                      !.defaultFillAlpha = a], c, a)
        ELSE t1

\* the fields as the constructor leaves them before it calls setDefaultStyles
Graphics(options) ==
    setDefaultStyles(
        [commandBuffer |-> <<>>,
         defaultFillColor |-> Num(-1), defaultFillAlpha |-> Num(1),
         defaultStrokeWidth |-> Num(1), defaultStrokeColor |-> Num(-1),
         defaultStrokeAlpha |-> Num(1), _lineWidth |-> Num(1)],
        options)

--------------------------------------------------------------------------
(* Paths *)

beginPath(this) == push(this, <<Commands.BEGIN_PATH>>)

closePath(this) == push(this, <<Commands.CLOSE_PATH>>)

fillPath(this) == push(this, <<Commands.FILL_PATH>>)

strokePath(this) == push(this, <<Commands.STROKE_PATH>>)

lineTo(this, x, y) == push(this, <<Commands.LINE_TO, x, y>>)

moveTo(this, x, y) == push(this, <<Commands.MOVE_TO, x, y>>)

lineFxTo(this, x, y, width, rgb) ==
    push(this, <<Commands.LINE_FX_TO, x, y, width, rgb, Num(1)>>)

moveFxTo(this, x, y, width, rgb) ==
    push(this, <<Commands.MOVE_FX_TO, x, y, width, rgb, Num(1)>>)

\* arc that writes no direction operand
arcUndirected(this, x, y, radius, startAngle, endAngle, anticlockwise) ==
    push(this, <<Commands.ARC, x, y, radius, startAngle, endAngle>>)

arc(this, x, y, radius, startAngle, endAngle, anticlockwise) ==
    push(this, <<Commands.ARC, x, y, radius, startAngle, endAngle, anticlockwise>>)

\* slice without the default for anticlockwise
sliceUndirected(this, x, y, radius, startAngle, endAngle, anticlockwise) ==
    LET t1 == push(this, <<Commands.BEGIN_PATH>>)
        t2 == push(t1, <<Commands.MOVE_TO, x, y>>)
        t3 == push(t2, <<Commands.ARC, x, y, radius, startAngle, endAngle,
                         anticlockwise>>)
    IN  push(t3, <<Commands.CLOSE_PATH>>)

slice(this, x, y, radius, startAngle, endAngle, anticlockwise) ==
    LET ac == Default(anticlockwise, False)
        t1 == push(this, <<Commands.BEGIN_PATH>>)
        t2 == push(t1, <<Commands.MOVE_TO, x, y>>)
        t3 == push(t2, <<Commands.ARC, x, y, radius, startAngle, endAngle, ac>>)
    IN  push(t3, <<Commands.CLOSE_PATH>>)

--------------------------------------------------------------------------
(* Shapes *)

\* the call passes five arguments to arc, so anticlockwise is undefined
fillCircle(this, x, y, radius) ==
    fillPath(arc(beginPath(this), x, y, radius, Num(0), PI2, Undefined))

\* strokeCircle that strokes a path without the arc
strokeCircleNoArc(this, x, y, radius) == strokePath(beginPath(this))

strokeCircle(this, x, y, radius) ==
    strokePath(arc(beginPath(this), x, y, radius, Num(0), PI2, Undefined))

fillCircleShape(this, circle) == fillCircle(this, circle.x, circle.y, circle.radius)

strokeCircleShape(this, circle) == strokeCircle(this, circle.x, circle.y, circle.radius)

fillRect(this, x, y, width, height) ==
    push(this, <<Commands.FILL_RECT, x, y, width, height>>)

strokeRect(this, x, y, width, height) ==
    LET lineWidthHalf == Half(this._lineWidth)
        minx == Minus(x, lineWidthHalf)
        maxx == Plus(x, lineWidthHalf)
        e1 == strokePath(lineTo(moveTo(beginPath(this), x, y), x, Plus(y, height)))
        e2 == strokePath(lineTo(moveTo(beginPath(e1), Plus(x, width), y),
                                Plus(x, width), Plus(y, height)))
        e3 == strokePath(lineTo(moveTo(beginPath(e2), minx, y), Plus(maxx, width), y))
    IN  strokePath(lineTo(moveTo(beginPath(e3), minx, Plus(y, height)),
                          Plus(maxx, width), Plus(y, height)))

fillRectShape(this, rect) == fillRect(this, rect.x, rect.y, rect.width, rect.height)

strokeRectShape(this, rect) == strokeRect(this, rect.x, rect.y, rect.width, rect.height)

\* fillPoint with size <= 1 for the test that collapses the size
fillPointInclusive(this, x, y, size) ==
    IF ~Truthy(size) \/ ~Greater(size, Num(1))
    THEN push(this, <<Commands.FILL_RECT, x, y, Num(1), Num(1)>>)
    ELSE push(this, <<Commands.FILL_RECT, Minus(x, Half(size)), Minus(y, Half(size)),
                      size, size>>)

fillPoint(this, x, y, size) ==
    IF ~Truthy(size) \/ Less(size, Num(1))
    THEN push(this, <<Commands.FILL_RECT, x, y, Num(1), Num(1)>>)
    ELSE push(this, <<Commands.FILL_RECT, Minus(x, Half(size)), Minus(y, Half(size)),
                      size, size>>)

\* fillPointShape that does not pass the size on
fillPointShapeUnsized(this, point, size) == fillPoint(this, point.x, point.y, Undefined)

fillPointShape(this, point, size) == fillPoint(this, point.x, point.y, size)

fillTriangle(this, x0, y0, x1, y1, x2, y2) ==
    push(this, <<Commands.FILL_TRIANGLE, x0, y0, x1, y1, x2, y2>>)

strokeTriangle(this, x0, y0, x1, y1, x2, y2) ==
    push(this, <<Commands.STROKE_TRIANGLE, x0, y0, x1, y1, x2, y2>>)

fillTriangleShape(this, triangle) ==
    fillTriangle(this, triangle.x1, triangle.y1, triangle.x2, triangle.y2,
                 triangle.x3, triangle.y3)

strokeTriangleShape(this, triangle) ==
    strokeTriangle(this, triangle.x1, triangle.y1, triangle.x2, triangle.y2,
                   triangle.x3, triangle.y3)

lineBetween(this, x1, y1, x2, y2) ==
    strokePath(lineTo(moveTo(beginPath(this), x1, y1), x2, y2))

strokeLineShape(this, line) == lineBetween(this, line.x1, line.y1, line.x2, line.y2)

--------------------------------------------------------------------------
(* Point paths and ellipses *)

\* the result of a method that can throw: the fields it leaves and the error ("" for none)
Returned(this) == [this |-> this, error |-> ""]

Thrown(this, error) == [this |-> this, error |-> error]

\* the loop with i <= endIndex for its condition
RECURSIVE lineToEachInclusive(_, _, _, _)
lineToEachInclusive(this, points, i, endIndex) ==
    IF Less(endIndex, Num(i))
    THEN [this |-> this, error |-> ""]
    ELSE IF i >= Len(points)
         THEN [this |-> this, error |-> "TypeError"]
         ELSE lineToEachInclusive(lineTo(this, points[i + 1].x, points[i + 1].y),
                                  points, i + 1, endIndex)

\* for (var i = 1; i < endIndex; i++) { this.lineTo(points[i].x, points[i].y); }
\* from index i on; points[i] is undefined past the end of the array, and its .x throws
RECURSIVE lineToEach(_, _, _, _)
lineToEach(this, points, i, endIndex) ==
    IF ~Less(Num(i), endIndex)
    THEN Returned(this)
    ELSE IF i >= Len(points)
         THEN Thrown(this, "TypeError")
         ELSE lineToEach(lineTo(this, points[i + 1].x, points[i + 1].y),
                         points, i + 1, endIndex)

\* what strokePoints and fillPoints do before the final strokePath()/fillPath()
pointPath(this, points, autoClose, endIndex) ==
    LET ac == Default(autoClose, False)
        e  == Default(endIndex, Num(Len(points)))
        t1 == beginPath(this)
    IN  IF Len(points) = 0
        THEN Thrown(t1, "TypeError")
        ELSE LET t2 == moveTo(t1, points[1].x, points[1].y)
                 r  == lineToEach(t2, points, 1, e)
             IN  IF r.error # ""
                 THEN r
                 ELSE IF Truthy(ac)
                      THEN Returned(lineTo(r.this, points[1].x, points[1].y))
                      ELSE r

strokePoints(this, points, autoClose, endIndex) ==
    LET r == pointPath(this, points, autoClose, endIndex)
    IN  IF r.error # "" THEN r ELSE Returned(strokePath(r.this))

fillPoints(this, points, autoClose, endIndex) ==
    LET r == pointPath(this, points, autoClose, endIndex)
    IN  IF r.error # "" THEN r ELSE Returned(fillPath(r.this))

\* new Ellipse(x, y, width, height)
Ellipse(x, y, width, height) == [x |-> x, y |-> y, width |-> width, height |-> height]

\* centre + extent / 2 * cos(2 PI i / n) for axis 0, ... * sin(2 PI i / n) for axis 1
Circumference(axis, centre, extent, i, n) ==
    [type |-> "number", op |-> "", q |-> 0, pi |-> 0,
     sym |-> <<axis, centre.q, extent.q, i, n>>]

\* ellipse.getPoints(quantity): quantity points on the boundary, from angle 0
getPoints(ellipse, quantity) ==
    [k \in 1..(quantity.q \div 4) |->
        [x |-> Circumference(0, ellipse.x, ellipse.width, k - 1, quantity.q \div 4),
         y |-> Circumference(1, ellipse.y, ellipse.height, k - 1, quantity.q \div 4)]]

strokeEllipseShape(this, ellipse, smoothness) ==
    LET s == Default(smoothness, Num(32))
    IN  strokePoints(this, getPoints(ellipse, s), True, Undefined)

strokeEllipse(this, x, y, width, height, smoothness) ==
    LET s == Default(smoothness, Num(32))
    IN  strokePoints(this, getPoints(Ellipse(x, y, width, height), s), True, Undefined)

fillEllipseShape(this, ellipse, smoothness) ==
    LET s == Default(smoothness, Num(32))
    IN  fillPoints(this, getPoints(ellipse, s), True, Undefined)

\* fillEllipse without the autoClose argument
fillEllipseOpen(this, x, y, width, height, smoothness) ==
    LET s == Default(smoothness, Num(32))
    IN  fillPoints(this, getPoints(Ellipse(x, y, width, height), s), Undefined, Undefined)

fillEllipse(this, x, y, width, height, smoothness) ==
    LET s == Default(smoothness, Num(32))
    IN  fillPoints(this, getPoints(Ellipse(x, y, width, height), s), True, Undefined)

--------------------------------------------------------------------------
(* Transform stack *)

save(this) == push(this, <<Commands.SAVE>>)

\* restore that writes nothing unless the buffer holds a SAVE still to be matched
restoreBalanced(this) ==
    LET saves == {i \in 1..Len(this.commandBuffer) :
                     this.commandBuffer[i] = Commands.SAVE}
        restores == {i \in 1..Len(this.commandBuffer) :
                        this.commandBuffer[i] = Commands.RESTORE}
    IN  IF Cardinality(saves) > Cardinality(restores)
        THEN push(this, <<Commands.RESTORE>>)
        ELSE this

restore(this) == push(this, <<Commands.RESTORE>>)

translate(this, x, y) == push(this, <<Commands.TRANSLATE, x, y>>)

scale(this, x, y) == push(this, <<Commands.SCALE, x, y>>)

rotate(this, radians) == push(this, <<Commands.ROTATE, radians>>)

--------------------------------------------------------------------------
(* Clear and destruction *)

\* clear with the stroke default re-applied before the fill default
clearStrokeFirst(this) ==
    LET t0 == [this EXCEPT !.commandBuffer = <<>>]
        t1 == IF Greater(t0.defaultStrokeColor, Num(-1))
              THEN lineStyle(t0, t0.defaultStrokeWidth, t0.defaultStrokeColor,
                             t0.defaultStrokeAlpha)
              ELSE t0
    IN  IF Greater(t1.defaultFillColor, Num(-1))
        THEN fillStyle(t1, t1.defaultFillColor, t1.defaultFillAlpha)
        ELSE t1

\* clear that re-applies the defaults without emptying the buffer
clearKeepsBuffer(this) ==
    LET t1 == IF Greater(this.defaultFillColor, Num(-1))
              THEN fillStyle(this, this.defaultFillColor, this.defaultFillAlpha)
              ELSE this
    IN  IF Greater(t1.defaultStrokeColor, Num(-1))
        THEN lineStyle(t1, t1.defaultStrokeWidth, t1.defaultStrokeColor,
                       t1.defaultStrokeAlpha)
        ELSE t1

\* clear that leaves a blank buffer without any style
clearBlank(this) == [this EXCEPT !.commandBuffer = <<>>]

\* clear that also puts the default colours back to the unset value
clearUnsetsDefaults(this) ==
    [this EXCEPT !.commandBuffer = <<>>, !.defaultFillColor = Num(-1),
                 !.defaultStrokeColor = Num(-1)]

clear(this) ==
    LET t0 == [this EXCEPT !.commandBuffer = <<>>]
        t1 == IF Greater(t0.defaultFillColor, Num(-1))
              THEN fillStyle(t0, t0.defaultFillColor, t0.defaultFillAlpha)
              ELSE t0
    IN  IF Greater(t1.defaultStrokeColor, Num(-1))
        THEN lineStyle(t1, t1.defaultStrokeWidth, t1.defaultStrokeColor,
                       t1.defaultStrokeAlpha)
        ELSE t1

\* preDestroy that resets the buffer the way clear does
preDestroyAsClear(this) == clear(this)

preDestroy(this) == [this EXCEPT !.commandBuffer = <<>>]

--------------------------------------------------------------------------
(* Texture capture *)

\* sys.game.config.width and .height
config == [width |-> Num(1024), height |-> Num(768)]

\* new Camera(0, 0, 0, 0)
Camera(cx, cy, width, height) ==
    [x |-> cx, y |-> cy, width |-> width, height |-> height,
     scrollX |-> Num(0), scrollY |-> Num(0)]

\* camera.setViewport(x, y, width, height)
setViewport(camera, cx, cy, width, height) ==
    [camera EXCEPT !.x = cx, !.y = cy, !.width = width, !.height = height]

\* sys.textures.exists(key)
exists(sys, name) == name \in DOMAIN sys.textures

\* sys.textures.createCanvas(key, width, height): a new canvas, registered under key
createCanvas(sys, name, width, height) ==
    [sys EXCEPT !.surfaces = Append(@, [width |-> width, height |-> height]),
                !.textures = @ @@ (name :> [canvas |-> Len(sys.surfaces) + 1,
                                            glTexture |-> 0])]

\* renderCanvas called twice
renderCanvasTwice(sys, this, camera, ctx) ==
    LET replay == [surface |-> ctx, camera |-> camera, commands |-> this.commandBuffer]
    IN  [sys EXCEPT !.replays = @ \o <<replay, replay>>]

\* this.renderCanvas(renderer, this, 0.0, camera, null, ctx): one replay of the buffer
renderCanvas(sys, this, camera, ctx) ==
    [sys EXCEPT !.replays = Append(@, [surface |-> ctx, camera |-> camera,
                                       commands |-> this.commandBuffer])]

\* canvasToTexture uploading into the GPU texture twice
canvasToTextureTwice(sys, name) ==
    [sys EXCEPT !.textures[name].glTexture = @ + 2]

\* the operands of the last instruction with this opcode in the buffer, <<>> when
\* the buffer has none
LastOperands(buffer, command, arity) ==
    LET places == {i \in 1..Len(buffer) : buffer[i] = command}
    IN  IF places = {} THEN <<>>
        ELSE LET last == CHOOSE i \in places : \A j \in places : j <= i
             IN  SubSeq(buffer, last + 1, last + arity)

\* the renderer's current fill style (colour, alpha) and current stroke style
\* (width, colour, alpha) when it has replayed the buffer: those of the last
\* FILL_STYLE and the last LINE_STYLE, <<>> for a style that was never set
ReplayedStyles(buffer) ==
    [fill |-> LastOperands(buffer, Commands.FILL_STYLE, 2),
     stroke |-> LastOperands(buffer, Commands.LINE_STYLE, 3)]

\* texture.source[0].glTexture = renderer.canvasToTexture(ctx.canvas, glTexture)
canvasToTexture(sys, name) ==
    [sys EXCEPT !.textures[name].glTexture = @ + 1]

\* generateTexture without the sys.textures.exists(key) branch: it always creates
generateTextureNoLookup(sys, this, pos, key, width, height, createFails) ==
    LET w  == Default(width, config.width)
        h  == Default(height, config.height)
        s1 == [sys EXCEPT !.TargetCamera =
                  [setViewport(@, Num(0), Num(0), w, h)
                      EXCEPT !.scrollX = pos.x, !.scrollY = pos.y]]
        isString == key.type = "string"
        found    == FALSE
        creates  == isString /\ ~found
        s2  == IF creates THEN createCanvas(s1, key.name, w, h) ELSE s1
        \* texture is set for a string key only
        hasTexture == isString
        ctx == IF found THEN s1.textures[key.name].canvas
               ELSE IF creates THEN s2.textures[key.name].canvas
               ELSE IF key.type = "canvas" THEN key.canvas
               ELSE 0
        s3  == IF ctx # 0 THEN renderCanvas(s2, this, s2.TargetCamera, ctx) ELSE s2
        s4  == IF ctx # 0 /\ s3.gl /\ hasTexture THEN canvasToTexture(s3, key.name) ELSE s3
    IN  IF creates /\ createFails
        THEN [sys |-> s1, error |-> "Error"]
        ELSE [sys |-> s4, error |-> ""]

\* generateTexture that leaves the camera's scroll position as it finds it
generateTextureUnscrolled(sys, this, pos, key, width, height, createFails) ==
    LET w  == Default(width, config.width)
        h  == Default(height, config.height)
        s1 == [sys EXCEPT !.TargetCamera =
                  setViewport(@, Num(0), Num(0), w, h)]
        isString == key.type = "string"
        found    == isString /\ exists(s1, key.name)
        creates  == isString /\ ~found
        s2  == IF creates THEN createCanvas(s1, key.name, w, h) ELSE s1
        \* texture is set for a string key only
        hasTexture == isString
        ctx == IF found THEN s1.textures[key.name].canvas
               ELSE IF creates THEN s2.textures[key.name].canvas
               ELSE IF key.type = "canvas" THEN key.canvas
               ELSE 0
        s3  == IF ctx # 0 THEN renderCanvas(s2, this, s2.TargetCamera, ctx) ELSE s2
        s4  == IF ctx # 0 /\ s3.gl /\ hasTexture THEN canvasToTexture(s3, key.name) ELSE s3
    IN  IF creates /\ createFails
        THEN [sys |-> s1, error |-> "Error"]
        ELSE [sys |-> s4, error |-> ""]

\* generateTexture replaying the buffer before createCanvas raises its error
generateTextureReplaysFirst(sys, this, pos, key, width, height, createFails) ==
    LET w  == Default(width, config.width)
        h  == Default(height, config.height)
        s1 == [sys EXCEPT !.TargetCamera =
                  [setViewport(@, Num(0), Num(0), w, h)
                      EXCEPT !.scrollX = pos.x, !.scrollY = pos.y]]
        isString == key.type = "string"
        found    == isString /\ exists(s1, key.name)
        creates  == isString /\ ~found
        s2  == IF creates THEN createCanvas(s1, key.name, w, h) ELSE s1
        hasTexture == isString
        ctx == IF found THEN s1.textures[key.name].canvas
               ELSE IF creates THEN s2.textures[key.name].canvas
               ELSE IF key.type = "canvas" THEN key.canvas
               ELSE 0
        s3  == IF ctx # 0 THEN renderCanvas(s2, this, s2.TargetCamera, ctx) ELSE s2
        s4  == IF ctx # 0 /\ s3.gl /\ hasTexture THEN canvasToTexture(s3, key.name) ELSE s3
    IN  IF creates /\ createFails
        THEN [sys |-> renderCanvas(s1, this, s1.TargetCamera, Len(s1.surfaces) + 1),
              error |-> "Error"]
        ELSE [sys |-> s4, error |-> ""]

\* key is [type, name, canvas]: a string name, a canvas element (its surface
\* number), or neither; sys is [TargetCamera, textures, surfaces, replays, gl];
\* the 2-D context of canvas i is i, and 0 stands for no context.
\* createFails: the registry raises an error from createCanvas.
generateTexture(sys, this, pos, key, width, height, createFails) ==
    LET w  == Default(width, config.width)
        h  == Default(height, config.height)
        s1 == [sys EXCEPT !.TargetCamera =
                  [setViewport(@, Num(0), Num(0), w, h)
                      EXCEPT !.scrollX = pos.x, !.scrollY = pos.y]]
        isString == key.type = "string"
        found    == isString /\ exists(s1, key.name)
        creates  == isString /\ ~found
        s2  == IF creates THEN createCanvas(s1, key.name, w, h) ELSE s1
        \* texture is set for a string key only
        hasTexture == isString
        ctx == IF found THEN s1.textures[key.name].canvas
               ELSE IF creates THEN s2.textures[key.name].canvas
               ELSE IF key.type = "canvas" THEN key.canvas
               ELSE 0
        s3  == IF ctx # 0 THEN renderCanvas(s2, this, s2.TargetCamera, ctx) ELSE s2
        s4  == IF ctx # 0 /\ s3.gl /\ hasTexture THEN canvasToTexture(s3, key.name) ELSE s3
    IN  IF creates /\ createFails
        THEN [sys |-> s1, error |-> "Error"]
        ELSE [sys |-> s4, error |-> ""]

\* the state outside the drawable that generateTexture reads and writes
Sys ==
    [TargetCamera |-> TargetCamera, textures |-> textures, surfaces |-> surfaces,
     replays |-> replays, gl |-> gl]

--------------------------------------------------------------------------
(* Inputs of the calls *)

Options ==
    LET none  == [present |-> FALSE, width |-> Undefined, color |-> Undefined,
                  alpha |-> Undefined]
        empty == [none EXCEPT !.present = TRUE]
        line  == [present |-> TRUE, width |-> Num(3), color |-> Num(255),
                  alpha |-> Quarters(2)]
        fill  == [present |-> TRUE, width |-> Undefined, color |-> Num(65280),
                  alpha |-> Quarters(3)]
    IN  {[x |-> Undefined, y |-> Undefined, lineStyle |-> none, fillStyle |-> none],
         [x |-> Undefined, y |-> Undefined, lineStyle |-> empty, fillStyle |-> none],
         [x |-> Undefined, y |-> Undefined, lineStyle |-> none, fillStyle |-> fill],
         [x |-> Num(5), y |-> Num(7), lineStyle |-> line, fillStyle |-> empty]}

\* the options a drawable is constructed from, and whether the renderer is WebGL
Games ==
    {[options |-> o, gl |-> (o.x = Undefined)] :
        o \in {p \in Options : p.lineStyle.present = p.fillStyle.present}}

\* lineWidth, alpha
LineStyles == {<<Num(3), Undefined>>, <<Quarters(2), Quarters(2)>>}

Alphas == {Undefined, Quarters(2)}

Sizes == {Undefined, Num(0), Quarters(2), Num(1), Num(4)}

Booleans == {Undefined, True}

Circles == {[x |-> Num(4), y |-> Num(3), radius |-> Num(2)]}

Rectangles == {[x |-> Num(1), y |-> Num(2), width |-> Num(6), height |-> Num(3)]}

Triangles ==
    {[x1 |-> Num(1), y1 |-> Num(2), x2 |-> Num(5), y2 |-> Num(3),
      x3 |-> Num(4), y3 |-> Num(6)]}

Lines == {[x1 |-> Num(1), y1 |-> Num(2), x2 |-> Num(5), y2 |-> Num(3)]}

Points == {[x |-> Num(4), y |-> Num(3)]}

Ellipses == {Ellipse(Num(4), Num(3), Num(6), Num(2))}

Smoothnesses == {Undefined, Num(3)}

Path3 ==
    <<[x |-> Num(1), y |-> Num(2)], [x |-> Num(5), y |-> Num(3)],
      [x |-> Num(4), y |-> Num(6)]>>

\* points, autoClose, endIndex
PointPaths ==
    {<<(<<>>), Undefined, Undefined>>,
     <<Path3, Undefined, Undefined>>,
     <<Path3, True, Num(2)>>,
     <<Path3, False, Num(4)>>}

\* key, width, height, createFails
Captures ==
    LET tex == [type |-> "string", name |-> "tex", canvas |-> 0]
    IN  {<<tex, Num(8), Num(4), FALSE>>,
         <<tex, Num(8), Num(4), TRUE>>,
         <<[type |-> "string", name |-> "__MISSING", canvas |-> 0],
           Num(8), Num(4), FALSE>>,
         <<[type |-> "canvas", name |-> "", canvas |-> 1],
           Undefined, Undefined, FALSE>>,
         <<[type |-> "undefined", name |-> "", canvas |-> 0],
           Undefined, Undefined, FALSE>>}

\* The width that the call hands to lineStyle, or before when it does not call it:
\* lineStyle itself, setDefaultStyles for options with a line style (lines 210-216),
\* clear for a drawable with a stroke default (lines 1105-1107).
LineStyledBy(name, args, before, this) ==
    IF name = "lineStyle" THEN args[1]
    ELSE IF name = "setDefaultStyles" /\ args[1].lineStyle.present
         THEN GetValue(args[1].lineStyle.width, Num(1))
    ELSE IF name = "clear" /\ Greater(this.defaultStrokeColor, Num(-1))
         THEN this.defaultStrokeWidth
    ELSE before

\* the methods that write a style, a transform, or a whole shape with its own
\* path: the point-path methods count when they are given a point
ComposedCalls ==
    {"setDefaultStyles", "lineStyle", "fillStyle",
     "save", "restore", "translate", "scale", "rotate",
     "fillCircle", "strokeCircle", "fillCircleShape", "strokeCircleShape",
     "fillRect", "strokeRect", "fillRectShape", "strokeRectShape",
     "fillPoint", "fillPointShape",
     "fillTriangle", "strokeTriangle", "fillTriangleShape", "strokeTriangleShape",
     "lineBetween", "strokeLineShape",
     "fillEllipse", "strokeEllipse", "fillEllipseShape", "strokeEllipseShape"}

\* whether the buffer after the call holds only what such calls wrote: clear
\* starts the buffer again from the style defaults
ComposedBy(name, args, before) ==
    IF name = "clear" THEN TRUE
    ELSE IF name \in {"strokePoints", "fillPoints"} THEN before /\ Len(args[1]) > 0
    ELSE before /\ name \in ComposedCalls

--------------------------------------------------------------------------
(* Initial state: a drawable just constructed from its options *)

\* new Graphics(scene, options) in a game whose renderer is WebGL or not
Constructed(options, webgl) ==
    LET this == Graphics(options)
    IN  /\ commandBuffer = this.commandBuffer
        /\ defaultFillColor = this.defaultFillColor
        /\ defaultFillAlpha = this.defaultFillAlpha
        /\ defaultStrokeWidth = this.defaultStrokeWidth
        /\ defaultStrokeColor = this.defaultStrokeColor
        /\ defaultStrokeAlpha = this.defaultStrokeAlpha
        /\ _lineWidth = this._lineWidth
        /\ position = [x |-> GetValue(options.x, Num(0)),
                       y |-> GetValue(options.y, Num(0))]
        /\ TargetCamera = Camera(Num(0), Num(0), Num(0), Num(0))
        /\ textures = ("__MISSING" :> [canvas |-> 0, glTexture |-> 0])
        /\ surfaces = <<[width |-> Num(16), height |-> Num(16)]>>
        /\ replays = <<>>
        /\ lineStyled = LineStyledBy("setDefaultStyles", <<options>>, Undefined, this)
        /\ gl = webgl
        /\ lastCall = [name |-> "Graphics", args |-> <<options>>, error |-> "",
                       raised |-> FALSE]
        /\ calls = 0
        /\ destroyed = FALSE
        /\ constructed = this
        /\ composed = TRUE

Init == \E game \in Games : Constructed(game.options, game.gl)

\* a drawable constructed from any of the options, under either renderer
InitAny == \E options \in Options, webgl \in BOOLEAN : Constructed(options, webgl)

--------------------------------------------------------------------------
(* Calls *)

\* a drawing call: r is what the method leaves in the drawable, and its error
Call(name, args, r) ==
    /\ calls < MaxCalls
    /\ ~destroyed
    /\ commandBuffer' = r.this.commandBuffer
    /\ defaultFillColor' = r.this.defaultFillColor
    /\ defaultFillAlpha' = r.this.defaultFillAlpha
    /\ defaultStrokeWidth' = r.this.defaultStrokeWidth
    /\ defaultStrokeColor' = r.this.defaultStrokeColor
    /\ defaultStrokeAlpha' = r.this.defaultStrokeAlpha
    /\ _lineWidth' = r.this._lineWidth
    /\ lineStyled' = LineStyledBy(name, args, lineStyled, This)
    /\ lastCall' = [name |-> name, args |-> args, error |-> r.error,
                    raised |-> FALSE]
    /\ calls' = calls + 1
    /\ composed' = ComposedBy(name, args, composed)
    /\ UNCHANGED <<position, TargetCamera, textures, surfaces, replays, gl, destroyed,
                   constructed>>

SetDefaultStyles ==
    \E options \in Options :
        Call("setDefaultStyles", <<options>>, Returned(setDefaultStyles(This, options)))

LineStyle ==
    \E ls \in LineStyles :
        Call("lineStyle", <<ls[1], Num(255), ls[2]>>,
             Returned(lineStyle(This, ls[1], Num(255), ls[2])))

FillStyle ==
    \E a \in Alphas :
        Call("fillStyle", <<Num(65280), a>>, Returned(fillStyle(This, Num(65280), a)))

BeginPath ==
    Call("beginPath", <<>>, Returned(beginPath(This)))

ClosePath ==
    Call("closePath", <<>>, Returned(closePath(This)))

FillPath ==
    Call("fillPath", <<>>, Returned(fillPath(This)))

StrokePath ==
    Call("strokePath", <<>>, Returned(strokePath(This)))

FillCircleShape ==
    \E c \in Circles :
        Call("fillCircleShape", <<c>>, Returned(fillCircleShape(This, c)))

StrokeCircleShape ==
    \E c \in Circles :
        Call("strokeCircleShape", <<c>>, Returned(strokeCircleShape(This, c)))

FillCircle ==
    \E c \in Circles :
        Call("fillCircle", <<c.x, c.y, c.radius>>, Returned(fillCircle(This, c.x, c.y, c.radius)))

StrokeCircle ==
    \E c \in Circles :
        Call("strokeCircle", <<c.x, c.y, c.radius>>, Returned(strokeCircle(This, c.x, c.y, c.radius)))

FillRectShape ==
    \E r \in Rectangles :
        Call("fillRectShape", <<r>>, Returned(fillRectShape(This, r)))

StrokeRectShape ==
    \E r \in Rectangles :
        Call("strokeRectShape", <<r>>, Returned(strokeRectShape(This, r)))

FillRect ==
    \E r \in Rectangles :
        Call("fillRect", <<r.x, r.y, r.width, r.height>>, Returned(fillRect(This, r.x, r.y, r.width, r.height)))

StrokeRect ==
    \E r \in Rectangles :
        Call("strokeRect", <<r.x, r.y, r.width, r.height>>, Returned(strokeRect(This, r.x, r.y, r.width, r.height)))

FillPointShape ==
    \E p \in Points, size \in {Num(4)} :
        Call("fillPointShape", <<p, size>>, Returned(fillPointShape(This, p, size)))

FillPoint ==
    \E p \in Points, size \in Sizes :
        Call("fillPoint", <<p.x, p.y, size>>, Returned(fillPoint(This, p.x, p.y, size)))

FillTriangleShape ==
    \E t \in Triangles :
        Call("fillTriangleShape", <<t>>, Returned(fillTriangleShape(This, t)))

StrokeTriangleShape ==
    \E t \in Triangles :
        Call("strokeTriangleShape", <<t>>, Returned(strokeTriangleShape(This, t)))

FillTriangle ==
    \E t \in Triangles :
        Call("fillTriangle", <<t.x1, t.y1, t.x2, t.y2, t.x3, t.y3>>, Returned(fillTriangle(This, t.x1, t.y1, t.x2, t.y2, t.x3, t.y3)))

StrokeTriangle ==
    \E t \in Triangles :
        Call("strokeTriangle", <<t.x1, t.y1, t.x2, t.y2, t.x3, t.y3>>, Returned(strokeTriangle(This, t.x1, t.y1, t.x2, t.y2, t.x3, t.y3)))

StrokeLineShape ==
    \E l \in Lines :
        Call("strokeLineShape", <<l>>, Returned(strokeLineShape(This, l)))

LineBetween ==
    \E l \in Lines :
        Call("lineBetween", <<l.x1, l.y1, l.x2, l.y2>>, Returned(lineBetween(This, l.x1, l.y1, l.x2, l.y2)))

LineTo ==
    \E p \in Points :
        Call("lineTo", <<p.x, p.y>>, Returned(lineTo(This, p.x, p.y)))

MoveTo ==
    \E p \in Points :
        Call("moveTo", <<p.x, p.y>>, Returned(moveTo(This, p.x, p.y)))

LineFxTo ==
    \E p \in Points :
        Call("lineFxTo", <<p.x, p.y, Num(3), Num(255)>>, Returned(lineFxTo(This, p.x, p.y, Num(3), Num(255))))

MoveFxTo ==
    \E p \in Points :
        Call("moveFxTo", <<p.x, p.y, Num(3), Num(255)>>, Returned(moveFxTo(This, p.x, p.y, Num(3), Num(255))))

StrokePoints ==
    \E pp \in PointPaths :
        Call("strokePoints", <<pp[1], pp[2], pp[3]>>, strokePoints(This, pp[1], pp[2], pp[3]))

FillPoints ==
    \E pp \in PointPaths :
        Call("fillPoints", <<pp[1], pp[2], pp[3]>>, fillPoints(This, pp[1], pp[2], pp[3]))

StrokeEllipseShape ==
    \E e \in Ellipses, smoothness \in {Undefined} :
        Call("strokeEllipseShape", <<e, smoothness>>, strokeEllipseShape(This, e, smoothness))

FillEllipseShape ==
    \E e \in Ellipses, smoothness \in {Undefined} :
        Call("fillEllipseShape", <<e, smoothness>>, fillEllipseShape(This, e, smoothness))

StrokeEllipse ==
    \E e \in Ellipses, smoothness \in Smoothnesses :
        Call("strokeEllipse", <<e.x, e.y, e.width, e.height, smoothness>>, strokeEllipse(This, e.x, e.y, e.width, e.height, smoothness))

FillEllipse ==
    \E e \in Ellipses, smoothness \in Smoothnesses :
        Call("fillEllipse", <<e.x, e.y, e.width, e.height, smoothness>>, fillEllipse(This, e.x, e.y, e.width, e.height, smoothness))

Arc ==
    \E c \in Circles, anticlockwise \in Booleans :
        Call("arc", <<c.x, c.y, c.radius, Num(0), PI2, anticlockwise>>, Returned(arc(This, c.x, c.y, c.radius, Num(0), PI2, anticlockwise)))

Slice ==
    \E c \in Circles, anticlockwise \in Booleans :
        Call("slice", <<c.x, c.y, c.radius, Num(1), PI2, anticlockwise>>, Returned(slice(This, c.x, c.y, c.radius, Num(1), PI2, anticlockwise)))

Save ==
    Call("save", <<>>, Returned(save(This)))

Restore ==
    Call("restore", <<>>, Returned(restore(This)))

Translate ==
    \E p \in Points :
        Call("translate", <<p.x, p.y>>, Returned(translate(This, p.x, p.y)))

Scale ==
    \E p \in Points :
        Call("scale", <<p.x, p.y>>, Returned(scale(This, p.x, p.y)))

Rotate ==
    Call("rotate", <<PI2>>, Returned(rotate(This, PI2)))

Clear ==
    Call("clear", <<>>, Returned(clear(This)))

GenerateTexture ==
    \E c \in Captures :
        LET key == c[1]
            createFails == c[4]
            r == generateTexture(Sys, This, position, key, c[2], c[3], createFails)
        IN  /\ calls < MaxCalls
            /\ ~destroyed
            /\ createFails => key.type = "string" /\ ~exists(Sys, key.name)
            /\ TargetCamera' = r.sys.TargetCamera
            /\ textures' = r.sys.textures
            /\ surfaces' = r.sys.surfaces
            /\ replays' = r.sys.replays
            /\ lastCall' = [name |-> "generateTexture", args |-> <<key, c[2], c[3]>>,
                            error |-> r.error, raised |-> createFails]
            /\ calls' = calls + 1
            /\ UNCHANGED <<commandBuffer, defaultFillColor, defaultFillAlpha,
                           defaultStrokeWidth, defaultStrokeColor, defaultStrokeAlpha,
                           _lineWidth, position, lineStyled, gl, destroyed,
                           constructed, composed>>

PreDestroy ==
    /\ calls < MaxCalls
    /\ ~destroyed
    /\ commandBuffer' = preDestroy(This).commandBuffer
    /\ destroyed' = TRUE
    /\ lastCall' = [name |-> "preDestroy", args |-> <<>>, error |-> "",
                    raised |-> FALSE]
    /\ calls' = calls + 1
    /\ UNCHANGED <<defaultFillColor, defaultFillAlpha, defaultStrokeWidth,
                   defaultStrokeColor, defaultStrokeAlpha, _lineWidth, position,
                   TargetCamera, textures, surfaces, replays, lineStyled, gl,
                   constructed, composed>>

Next ==
    \/ SetDefaultStyles
    \/ LineStyle
    \/ FillStyle
    \/ BeginPath
    \/ ClosePath
    \/ FillPath
    \/ StrokePath
    \/ FillCircleShape
    \/ StrokeCircleShape
    \/ FillCircle
    \/ StrokeCircle
    \/ FillRectShape
    \/ StrokeRectShape
    \/ FillRect
    \/ StrokeRect
    \/ FillPointShape
    \/ FillPoint
    \/ FillTriangleShape
    \/ StrokeTriangleShape
    \/ FillTriangle
    \/ StrokeTriangle
    \/ StrokeLineShape
    \/ LineBetween
    \/ LineTo
    \/ MoveTo
    \/ LineFxTo
    \/ MoveFxTo
    \/ StrokePoints
    \/ FillPoints
    \/ StrokeEllipseShape
    \/ FillEllipseShape
    \/ StrokeEllipse
    \/ FillEllipse
    \/ Arc
    \/ Slice
    \/ Save
    \/ Restore
    \/ Translate
    \/ Scale
    \/ Rotate
    \/ Clear
    \/ GenerateTexture
    \/ PreDestroy

Spec == Init /\ [][Next]_vars

\* the calls that set styles, reset the drawable or destroy it
Styling ==
    \/ SetDefaultStyles
    \/ LineStyle
    \/ FillStyle
    \/ Clear
    \/ PreDestroy

\* drawables constructed from every kind of options, then styled
SpecStyling == InitAny /\ [][Styling]_vars

--------------------------------------------------------------------------
(* Properties *)

\* s is a prefix of t
IsPrefix(s, t) == Len(s) <= Len(t) /\ SubSeq(t, 1, Len(s)) = s

\* what a step appended to the command buffer
Appended == SubSeq(commandBuffer', Len(commandBuffer) + 1, Len(commandBuffer'))

\* the step is a call of the method with this name
Called(name) == lastCall'.name = name

\* C1: every call other than clear() and destruction keeps the previous
\* contents of the command buffer as an unchanged prefix and only appends at
\* its end, so the buffer after a run of calls is the expansions in call order.
DrawOrderPreserved ==
    [][lastCall'.name \notin {"clear", "preDestroy"}
          => IsPrefix(commandBuffer, commandBuffer')]_vars

\* a shape call has appended its expansion behind the instructions of an earlier call
DrawOrderWitness ==
    /\ calls = MaxCalls
    /\ lastCall.name = "strokeRect"
    /\ Len(commandBuffer) > 32
    /\ commandBuffer[Len(commandBuffer)] = Commands.STROKE_PATH

\* C2: fillCircle(x, y, r) appends exactly BEGIN_PATH, ARC(x, y, r, 0, 2 PI,
\* false), FILL_PATH and strokeCircle(x, y, r) the same ending in STROKE_PATH,
\* the sixth operand of ARC being the boolean false.
CircleArcIsClockwiseFalse ==
    [][/\ Called("fillCircle") =>
            Appended = <<Commands.BEGIN_PATH, Commands.ARC, lastCall'.args[1],
                         lastCall'.args[2], lastCall'.args[3], Num(0), PI2, False,
                         Commands.FILL_PATH>>
       /\ Called("strokeCircle") =>
            Appended = <<Commands.BEGIN_PATH, Commands.ARC, lastCall'.args[1],
                         lastCall'.args[2], lastCall'.args[3], Num(0), PI2, False,
                         Commands.STROKE_PATH>>]_vars

\* a fill default is set: the default colour is greater than -1, the test of clear
FillDefaultSet == Greater(defaultFillColor, Num(-1))

StrokeDefaultSet == Greater(defaultStrokeColor, Num(-1))

\* C3: right after clear() the buffer is FILL_STYLE(default fill colour and
\* alpha) iff a fill default is set, followed by LINE_STYLE(default stroke
\* width, colour, alpha) iff a stroke default is set, and nothing else.
ClearLeavesDefaultStyles ==
    lastCall.name = "clear" =>
        commandBuffer =
            (IF FillDefaultSet
             THEN <<Commands.FILL_STYLE, defaultFillColor, defaultFillAlpha>>
             ELSE <<>>)
            \o
            (IF StrokeDefaultSet
             THEN <<Commands.LINE_STYLE, defaultStrokeWidth, defaultStrokeColor,
                    defaultStrokeAlpha>>
             ELSE <<>>)

\* clear() on a drawable with both defaults, after an earlier call
ClearWitness ==
    /\ lastCall.name = "clear"
    /\ calls = MaxCalls
    /\ FillDefaultSet
    /\ StrokeDefaultSet
    /\ Len(commandBuffer) = 7

\* BEGIN_PATH, MOVE_TO(ax, ay), LINE_TO(bx, by), STROKE_PATH
StrokedEdge(ax, ay, bx, by) ==
    <<Commands.BEGIN_PATH, Commands.MOVE_TO, ax, ay, Commands.LINE_TO, bx, by,
      Commands.STROKE_PATH>>

\* half of the width given to the latest lineStyle call, half of 1.0 without one
LatestHalfWidth ==
    IF lineStyled = Undefined THEN Quarters(2) ELSE Quarters(lineStyled.q \div 2)

\* C4: strokeRect(x, y, w, h) appends four BEGIN_PATH, MOVE_TO, LINE_TO,
\* STROKE_PATH groups: the left edge, the right edge, then the top and the
\* bottom edge, which run from x - hw to x + hw + w with hw half of the width
\* of the latest line-style call (half of 1.0 without one).
StrokeRectEdges ==
    [][Called("strokeRect") =>
        LET rx == lastCall'.args[1]
            ry == lastCall'.args[2]
            rw == lastCall'.args[3]
            rh == lastCall'.args[4]
            hw == LatestHalfWidth
            left  == Quarters(rx.q - hw.q)
            right == Quarters(rx.q + hw.q + rw.q)
            below == Quarters(ry.q + rh.q)
        IN  Appended =
                StrokedEdge(rx, ry, rx, below)
                \o StrokedEdge(Quarters(rx.q + rw.q), ry, Quarters(rx.q + rw.q), below)
                \o StrokedEdge(left, ry, right, ry)
                \o StrokedEdge(left, below, right, below)]_vars

\* strokeRect after a lineStyle call of width 3
StrokeRectWitness ==
    /\ lastCall.name = "strokeRect"
    /\ lineStyled = Num(3)
    /\ Len(commandBuffer) >= 36

\* LINE_TO(points[i]) for the array indices i = from..to, in index order
LineTos(points, from, to) ==
    [k \in 1..(3 * (to - from + 1)) |->
        LET p == points[from + ((k - 1) \div 3) + 1]
        IN  IF (k - 1) % 3 = 0 THEN Commands.LINE_TO
            ELSE IF (k - 1) % 3 = 1 THEN p.x ELSE p.y]

\* BEGIN_PATH, MOVE_TO(p0), LINE_TO(p1) .. LINE_TO(p(e-1)), LINE_TO(p0) if closed, final
PathExpansion(points, closed, e, final) ==
    <<Commands.BEGIN_PATH, Commands.MOVE_TO, points[1].x, points[1].y>>
    \o LineTos(points, 1, e - 1)
    \o (IF closed THEN <<Commands.LINE_TO, points[1].x, points[1].y>> ELSE <<>>)
    \o <<final>>

\* the end index of a call in range for its points: omitted, or 1 <= e <= n
EndIndexInRange(points, endIndex) ==
    \/ endIndex = Undefined
    \/ /\ endIndex.q % 4 = 0
       /\ 1 <= endIndex.q \div 4
       /\ endIndex.q \div 4 <= Len(points)

\* the array index at which a call stops: endIndex, or the length when omitted
EndIndexOf(points, endIndex) ==
    IF endIndex = Undefined THEN Len(points) ELSE endIndex.q \div 4

\* C5: for a non-empty point sequence, a flag autoClose (default false) and an
\* end index 1 <= e <= n (default n), strokePoints appends BEGIN_PATH,
\* MOVE_TO(p0), LINE_TO(pi) for i = 1..e-1, one more LINE_TO(p0) iff autoClose
\* is true, then STROKE_PATH; fillPoints the same ending in FILL_PATH.
PointPathExpansion ==
    [][(Called("strokePoints") \/ Called("fillPoints")) =>
        LET pts == lastCall'.args[1]
            ac  == lastCall'.args[2]
            ei  == lastCall'.args[3]
        IN  (Len(pts) >= 1 /\ EndIndexInRange(pts, ei)) =>
                /\ lastCall'.error = ""
                /\ Appended =
                     PathExpansion(pts, ac = True, EndIndexOf(pts, ei),
                                   IF Called("strokePoints")
                                   THEN Commands.STROKE_PATH
                                   ELSE Commands.FILL_PATH)]_vars

\* fillPoints has drawn the first two of three points and closed the path
PointPathWitness ==
    /\ lastCall.name = "fillPoints"
    /\ Len(lastCall.args[1]) = 3
    /\ lastCall.args[2] = True
    /\ lastCall.args[3] = Num(2)
    /\ lastCall.error = ""
    /\ Len(commandBuffer) >= 11
    /\ commandBuffer[Len(commandBuffer)] = Commands.FILL_PATH

\* C6: strokePoints or fillPoints with an empty point sequence fails before
\* anything is written: the command buffer after the failed call is the
\* buffer before it.
EmptyPointsWriteNothing ==
    [][((Called("strokePoints") \/ Called("fillPoints")) /\ Len(lastCall'.args[1]) = 0)
          => (lastCall'.error # "" /\ commandBuffer' = commandBuffer)]_vars

\* C7: fillPoint(x, y, size) appends one instruction: FILL_RECT(x, y, 1, 1)
\* when size is omitted, zero or less than 1, and FILL_RECT(x - size/2,
\* y - size/2, size, size) when size >= 1.
FillPointSquare ==
    [][Called("fillPoint") =>
        LET px == lastCall'.args[1]
            py == lastCall'.args[2]
            size == lastCall'.args[3]
        IN  Appended =
                IF size = Undefined \/ size.q < 4
                THEN <<Commands.FILL_RECT, px, py, Num(1), Num(1)>>
                ELSE <<Commands.FILL_RECT, Quarters(px.q - size.q \div 2),
                       Quarters(py.q - size.q \div 2), size, size>>]_vars

\* fillPoint with size 4 has written its square, moved back by 2 on both axes
FillPointWitness ==
    /\ lastCall.name = "fillPoint"
    /\ lastCall.args[3] = Num(4)
    /\ Len(commandBuffer) >= 5
    /\ commandBuffer[Len(commandBuffer) - 3] = Quarters(lastCall.args[1].q - 8)

\* the number of operands that follow each opcode
Arity(command) ==
    CASE command.op \in {"BEGIN_PATH", "CLOSE_PATH", "FILL_PATH", "STROKE_PATH",
                         "SAVE", "RESTORE"} -> 0
      [] command.op = "ROTATE" -> 1
      [] command.op \in {"FILL_STYLE", "LINE_TO", "MOVE_TO", "TRANSLATE", "SCALE"} -> 2
      [] command.op = "LINE_STYLE" -> 3
      [] command.op = "FILL_RECT" -> 4
      [] command.op \in {"LINE_FX_TO", "MOVE_FX_TO"} -> 5
      [] command.op \in {"FILL_TRIANGLE", "STROKE_TRIANGLE", "ARC"} -> 6
      [] OTHER -> 0

\* the number of whole instructions in items read from index i on, or -1 when
\* items does not parse into opcodes each followed by its operands
RECURSIVE Instructions(_, _)
Instructions(items, i) ==
    IF i > Len(items) THEN 0
    ELSE IF items[i].type # "opcode" \/ i + Arity(items[i]) > Len(items) THEN -1
    ELSE IF \E k \in (i + 1)..(i + Arity(items[i])) : items[k].type = "opcode" THEN -1
    ELSE LET rest == Instructions(items, i + 1 + Arity(items[i]))
         IN  IF rest < 0 THEN -1 ELSE rest + 1

\* C8: an ellipse call with smoothness n (default 32) takes n boundary points
\* q0..q(n-1) from the ellipse helper and appends the closed point path
\* BEGIN_PATH, MOVE_TO(q0), LINE_TO(q1) .. LINE_TO(q(n-1)), LINE_TO(q0), then
\* FILL_PATH or STROKE_PATH: n + 3 instructions.
EllipseExpansion ==
    [][(Called("fillEllipse") \/ Called("strokeEllipse")
          \/ Called("fillEllipseShape") \/ Called("strokeEllipseShape")) =>
        LET a == lastCall'.args
            scalar == Called("fillEllipse") \/ Called("strokeEllipse")
            ellipse == IF scalar THEN Ellipse(a[1], a[2], a[3], a[4]) ELSE a[1]
            given == IF scalar THEN a[5] ELSE a[2]
            n == IF given = Undefined THEN 32 ELSE given.q \div 4
            pts == getPoints(ellipse, Num(n))
            final == IF Called("fillEllipse") \/ Called("fillEllipseShape")
                     THEN Commands.FILL_PATH ELSE Commands.STROKE_PATH
        IN  /\ Len(pts) = n
            /\ lastCall'.error = ""
            /\ Appended = PathExpansion(pts, TRUE, n, final)
            /\ Instructions(Appended, 1) = n + 3]_vars

\* fillEllipse with the default smoothness has appended its 35 instructions
EllipseWitness ==
    /\ lastCall.name = "fillEllipse"
    /\ lastCall.args[5] = Undefined
    /\ lastCall.error = ""
    /\ Len(commandBuffer) >= 101
    /\ commandBuffer[Len(commandBuffer)] = Commands.FILL_PATH

\* C9: generateTexture called twice in a row with the same string key
\* allocates a surface at most once: a call creates one surface when the key
\* is absent from the registry, the call after it creates none and draws into
\* that same surface; the command buffer is the same before and after.
CaptureReusesSurface ==
    [][(Called("generateTexture") /\ lastCall'.args[1].type = "string") =>
        LET key == lastCall'.args[1].name
        IN  /\ commandBuffer' = commandBuffer
            /\ Len(surfaces') <= Len(surfaces) + 1
            /\ (key \notin DOMAIN textures /\ lastCall'.error = "") =>
                  /\ Len(surfaces') = Len(surfaces) + 1
                  /\ key \in DOMAIN textures'
                  /\ textures'[key].canvas = Len(surfaces')
            /\ (/\ lastCall.name = "generateTexture"
                /\ lastCall.error = ""
                /\ lastCall.args[1] = lastCall'.args[1]) =>
                  /\ surfaces' = surfaces
                  /\ textures'[key].canvas = textures[key].canvas
                  /\ textures[key].canvas # 0 =>
                        /\ Len(replays') = Len(replays) + 1
                        /\ replays'[Len(replays')].surface = textures[key].canvas
                        /\ replays[Len(replays)].surface = textures[key].canvas]_vars

\* two captures in a row under the key "tex": one surface created, drawn into twice
CaptureReuseWitness ==
    /\ calls = 2
    /\ lastCall.name = "generateTexture"
    /\ lastCall.args[1].name = "tex"
    /\ Len(surfaces) = 2
    /\ Len(replays) = 2
    /\ replays[1].surface = 2
    /\ replays[2].surface = 2

\* the key of the step's generateTexture call is a name or a canvas element
CaptureTargetGiven == lastCall'.args[1].type \in {"string", "canvas"}

\* the target of the step's generateTexture call resolves to a canvas: a
\* canvas element, a name not yet in the registry, or a name whose texture has
\* a canvas for its source image
CaptureResolves ==
    LET key == lastCall'.args[1]
    IN  \/ key.type = "canvas"
        \/ /\ key.type = "string"
           /\ (key.name \in DOMAIN textures => textures[key.name].canvas # 0)

\* the canvas that the step's generateTexture call resolves its target to
CaptureSurface ==
    LET key == lastCall'.args[1]
    IN  IF key.type = "canvas" THEN key.canvas ELSE textures'[key.name].canvas

\* C10 as stated: every generateTexture call that returns normally performs
\* exactly one replay of the current command buffer, for a key not yet in the
\* registry, a key already in the registry and an existing canvas.
CaptureAlwaysReplaysOnce ==
    [][(Called("generateTexture") /\ lastCall'.error = "" /\ CaptureTargetGiven)
          => Len(replays') = Len(replays) + 1]_vars

\* C10 amended: a generateTexture call that returns normally performs exactly
\* one replay of the current command buffer into the target's 2-D context when
\* the target resolves to a canvas (a key not yet in the registry, a key in the
\* registry whose source image is a canvas, a canvas element), and no replay
\* when the key is in the registry with a source image that is not a canvas.
CaptureReplaysOnceIfCanvas ==
    [][(Called("generateTexture") /\ lastCall'.error = "" /\ CaptureTargetGiven) =>
        replays' = IF CaptureResolves
                   THEN Append(replays, [surface |-> CaptureSurface,
                                         camera |-> TargetCamera',
                                         commands |-> commandBuffer])
                   ELSE replays]_vars

\* a capture into the caller's canvas element has replayed a non-empty buffer once
CaptureReplayWitness ==
    /\ lastCall.name = "generateTexture"
    /\ lastCall.args[1].type = "canvas"
    /\ lastCall.error = ""
    /\ Len(replays) = 1
    /\ replays[1].surface = 1
    /\ replays[1].commands = commandBuffer
    /\ Len(commandBuffer) > 7

\* the number of uploads made so far into the textures under these names
RECURSIVE SumUploads(_, _)
SumUploads(registry, names) ==
    IF names = {} THEN 0
    ELSE LET name == CHOOSE m \in names : TRUE
         IN  registry[name].glTexture + SumUploads(registry, names \ {name})

\* the number of canvasToTexture uploads that the registry's textures have received
Uploads(registry) == SumUploads(registry, DOMAIN registry)

\* the step's generateTexture call has replayed the buffer
CaptureReplayed == Len(replays') = Len(replays) + 1

\* C11 as stated: with a WebGL renderer, every generateTexture call that has
\* replayed the buffer into its target also uploads the raster into a GPU
\* texture, for a target given by key and for a target given as a canvas.
CaptureAlwaysUploads ==
    [][(Called("generateTexture") /\ gl /\ CaptureTargetGiven /\ CaptureReplayed)
          => Uploads(textures') = Uploads(textures) + 1]_vars

\* C11 amended: with a WebGL renderer, a generateTexture call that has
\* replayed the buffer into the canvas of a target given by key uploads the
\* raster once into the GPU texture of that key's texture; a call whose target
\* is given as a canvas element uploads nothing, and neither does any call
\* without a WebGL renderer or without a replay.
CaptureUploadsNamedTarget ==
    [][Called("generateTexture") =>
        LET key == lastCall'.args[1]
            before == IF key.name \in DOMAIN textures
                      THEN textures[key.name].glTexture ELSE 0
        IN  IF gl /\ CaptureReplayed /\ key.type = "string"
            THEN /\ textures'[key.name].glTexture = before + 1
                 /\ Uploads(textures') = Uploads(textures) + 1
            ELSE Uploads(textures') = Uploads(textures)]_vars

\* under WebGL a capture by key has replayed a non-empty buffer and uploaded it
CaptureUploadWitness ==
    /\ gl
    /\ lastCall.name = "generateTexture"
    /\ lastCall.args[1] = [type |-> "string", name |-> "tex", canvas |-> 0]
    /\ lastCall.error = ""
    /\ Len(replays) = 1
    /\ Len(replays[1].commands) > 0
    /\ textures["tex"].glTexture = 1

\* the five style defaults and the cached line width of the drawable
StyleFields(this) ==
    <<this.defaultFillColor, this.defaultFillAlpha, this.defaultStrokeWidth,
      this.defaultStrokeColor, this.defaultStrokeAlpha, this._lineWidth>>

\* C12: when the texture registry raises an error during generateTexture, the
\* call ends with that error, performs no replay and uploads nothing, and the
\* command buffer, the five style defaults and the cached line width are what
\* they were before the call; no generateTexture call, whatever its outcome,
\* changes the command buffer.
CaptureErrorLeavesDrawable ==
    [][Called("generateTexture") =>
        /\ commandBuffer' = commandBuffer
        /\ lastCall'.raised =>
              /\ lastCall'.error # ""
              /\ replays' = replays
              /\ Uploads(textures') = Uploads(textures)
              /\ StyleFields(This)' = StyleFields(This)]_vars

\* the registry has raised an error in a capture of a non-empty buffer
CaptureErrorWitness ==
    /\ lastCall.name = "generateTexture"
    /\ lastCall.raised
    /\ lastCall.error = "Error"
    /\ Len(commandBuffer) > 0
    /\ replays = <<>>

\* the value of a style field of the configuration, or its default when missing
Configured(given, defaultValue) == IF given = Undefined THEN defaultValue ELSE given

\* C13: right after construction, a configured line style has become the
\* stroke defaults (width 1, colour 0xffffff, alpha 1 for missing fields) and
\* one LINE_STYLE with those values is in the buffer; a configured fill style
\* has become the fill defaults and one FILL_STYLE is in the buffer; each kind
\* is handled whether or not the other is present, and for an absent kind the
\* default colour is the sentinel -1 and the buffer has no instruction of it.
ConstructionAppliesStyles ==
    lastCall.name = "Graphics" =>
        LET line == lastCall.args[1].lineStyle
            fill == lastCall.args[1].fillStyle
            lw == Configured(line.width, Num(1))
            lc == Configured(line.color, Num(16777215))
            la == Configured(line.alpha, Num(1))
            fc == Configured(fill.color, Num(16777215))
            fa == Configured(fill.alpha, Num(1))
        IN  /\ line.present =>
                <<defaultStrokeWidth, defaultStrokeColor, defaultStrokeAlpha>>
                    = <<lw, lc, la>>
            /\ ~line.present => defaultStrokeColor = Num(-1)
            /\ fill.present => <<defaultFillColor, defaultFillAlpha>> = <<fc, fa>>
            /\ ~fill.present => defaultFillColor = Num(-1)
            /\ commandBuffer =
                   (IF line.present THEN <<Commands.LINE_STYLE, lw, lc, la>> ELSE <<>>)
                   \o (IF fill.present THEN <<Commands.FILL_STYLE, fc, fa>> ELSE <<>>)

\* a drawable just constructed with a fill style and no line style
ConstructionWitness ==
    /\ lastCall.name = "Graphics"
    /\ lastCall.args[1].fillStyle.present
    /\ ~lastCall.args[1].lineStyle.present
    /\ commandBuffer = <<Commands.FILL_STYLE, Num(65280), Quarters(3)>>
    /\ defaultStrokeColor = Num(-1)

\* C14: slice(x, y, r, start, end, anticlockwise) appends exactly BEGIN_PATH,
\* MOVE_TO(x, y), ARC(x, y, r, start, end, dir), CLOSE_PATH, where dir is false
\* when anticlockwise is omitted and the given value otherwise; it appends no
\* FILL_PATH and no STROKE_PATH.
SliceBuildsClosedPath ==
    [][Called("slice") =>
        LET a == lastCall'.args
            dir == IF a[6] = Undefined THEN False ELSE a[6]
        IN  /\ Appended = <<Commands.BEGIN_PATH, Commands.MOVE_TO, a[1], a[2],
                            Commands.ARC, a[1], a[2], a[3], a[4], a[5], dir,
                            Commands.CLOSE_PATH>>
            /\ \A i \in 1..Len(Appended) :
                  Appended[i] \notin {Commands.FILL_PATH, Commands.STROKE_PATH}]_vars

\* slice called without anticlockwise has written false as the direction
SliceWitness ==
    /\ lastCall.name = "slice"
    /\ lastCall.args[6] = Undefined
    /\ Len(commandBuffer) >= 12
    /\ commandBuffer[Len(commandBuffer) - 1] = False
    /\ commandBuffer[Len(commandBuffer)] = Commands.CLOSE_PATH

\* the five style defaults of the drawable
StyleDefaults ==
    <<defaultFillColor, defaultFillAlpha, defaultStrokeWidth, defaultStrokeColor,
      defaultStrokeAlpha>>

\* C15: lineStyle(width, color, alpha) appends exactly LINE_STYLE, width,
\* color, alpha (alpha 1 when omitted) and makes width the cached line width;
\* fillStyle(color, alpha) appends exactly FILL_STYLE, color, alpha (alpha 1
\* when omitted) and leaves the cached line width as it was; neither changes
\* any of the five style defaults nor appends anything else.
StyleCallsAppendOneStyle ==
    [][/\ Called("lineStyle") =>
            LET a == lastCall'.args
            IN  /\ Appended = <<Commands.LINE_STYLE, a[1], a[2],
                                IF a[3] = Undefined THEN Num(1) ELSE a[3]>>
                /\ IsPrefix(commandBuffer, commandBuffer')
                /\ _lineWidth' = a[1]
                /\ StyleDefaults' = StyleDefaults
       /\ Called("fillStyle") =>
            LET a == lastCall'.args
            IN  /\ Appended = <<Commands.FILL_STYLE, a[1],
                                IF a[2] = Undefined THEN Num(1) ELSE a[2]>>
                /\ IsPrefix(commandBuffer, commandBuffer')
                /\ _lineWidth' = _lineWidth
                /\ StyleDefaults' = StyleDefaults]_vars

\* fillStyle without alpha, after lineStyle(3): alpha 1 written, width 3 still cached
StyleCallWitness ==
    /\ lastCall.name = "fillStyle"
    /\ lastCall.args[2] = Undefined
    /\ lineStyled = Num(3)
    /\ _lineWidth = Num(3)
    /\ commandBuffer[Len(commandBuffer)] = Num(1)
    /\ commandBuffer[Len(commandBuffer) - 2] = Commands.FILL_STYLE
    /\ commandBuffer[Len(commandBuffer) - 3] = Num(1)
    /\ commandBuffer[Len(commandBuffer) - 6] = Commands.LINE_STYLE

\* the methods that take a geometry object
ShapeCalls ==
    {"fillCircleShape", "strokeCircleShape", "fillRectShape", "strokeRectShape",
     "fillPointShape", "fillTriangleShape", "strokeTriangleShape", "strokeLineShape",
     "fillEllipseShape", "strokeEllipseShape"}

\* what the scalar method leaves in the drawable when it is called on the
\* fields of the geometry object that the shape method was called with
ScalarCall(name, a, this) ==
    LET g == a[1]
    IN  CASE name = "fillCircleShape" -> fillCircle(this, g.x, g.y, g.radius)
          [] name = "strokeCircleShape" -> strokeCircle(this, g.x, g.y, g.radius)
          [] name = "fillRectShape" -> fillRect(this, g.x, g.y, g.width, g.height)
          [] name = "strokeRectShape" -> strokeRect(this, g.x, g.y, g.width, g.height)
          [] name = "fillPointShape" -> fillPoint(this, g.x, g.y, a[2])
          [] name = "fillTriangleShape" ->
                fillTriangle(this, g.x1, g.y1, g.x2, g.y2, g.x3, g.y3)
          [] name = "strokeTriangleShape" ->
                strokeTriangle(this, g.x1, g.y1, g.x2, g.y2, g.x3, g.y3)
          [] name = "strokeLineShape" -> lineBetween(this, g.x1, g.y1, g.x2, g.y2)
          [] name = "fillEllipseShape" ->
                fillEllipse(this, g.x, g.y, g.width, g.height, a[2]).this
          [] name = "strokeEllipseShape" ->
                strokeEllipse(this, g.x, g.y, g.width, g.height, a[2]).this

\* C16: each Shape method leaves the command buffer and the cached line width
\* that its scalar method leaves when called, from the same state, on the
\* fields of the geometry object.
ShapeCallsAsScalarCalls ==
    [][lastCall'.name \in ShapeCalls =>
        LET scalar == ScalarCall(lastCall'.name, lastCall'.args, This)
        IN  /\ commandBuffer' = scalar.commandBuffer
            /\ _lineWidth' = scalar._lineWidth
            /\ commandBuffer' # commandBuffer]_vars

\* fillPointShape with size 4 has written the square that fillPoint writes
ShapeCallWitness ==
    /\ lastCall.name = "fillPointShape"
    /\ lastCall.args[2] = Num(4)
    /\ calls = 2
    /\ SubSeq(commandBuffer, Len(commandBuffer) - 4, Len(commandBuffer))
          = <<Commands.FILL_RECT, Num(2), Num(1), Num(4), Num(4)>>

\* C17: clear() leaves the default fill colour, default fill alpha, default
\* stroke width, default stroke colour and default stroke alpha as they were
\* before it, whatever calls came before.
ClearKeepsStyleDefaults ==
    [][Called("clear") => StyleDefaults' = StyleDefaults]_vars

\* clear() after an earlier call, on a drawable whose defaults are a configured
\* line style and an empty fill style
ClearDefaultsWitness ==
    /\ lastCall.name = "clear"
    /\ calls = 2
    /\ StyleDefaults = <<Num(16777215), Num(1), Num(3), Num(255), Quarters(2)>>

\* C18: preDestroy leaves the command buffer empty, also on a drawable with
\* style defaults, for which clear() leaves style instructions, and it leaves
\* the viewport and scroll fields of the shared capture camera as they were.
DestroyEmptiesBuffer ==
    [][Called("preDestroy") =>
        /\ commandBuffer' = <<>>
        /\ TargetCamera' = TargetCamera
        /\ StyleFields(This)' = StyleFields(This)]_vars

\* a drawable with both style defaults destroyed after a capture: its buffer is
\* empty and the camera still has the capture's viewport and scroll
DestroyWitness ==
    /\ lastCall.name = "preDestroy"
    /\ destroyed
    /\ FillDefaultSet
    /\ StrokeDefaultSet
    /\ commandBuffer = <<>>
    /\ Len(replays) = 1
    /\ Len(replays[1].commands) = 7
    /\ TargetCamera.width = Num(8)
    /\ TargetCamera.scrollX = Num(5)

\* C19: in every reachable state the command buffer parses from its start
\* into whole instructions, each opcode followed by as many operands as the
\* opcode table gives it, also after calls that omit alpha or anticlockwise
\* and after calls that end in an error: the buffer, if not empty, starts with
\* an opcode, and every opcode is followed by exactly Arity operands and then
\* by the next opcode or the end of the buffer.
BufferParses ==
    LET n == Len(commandBuffer)
        opcodes == {i \in 1..n : commandBuffer[i].type = "opcode"}
    IN  /\ n > 0 => 1 \in opcodes
        /\ \A i \in opcodes :
              LET end == i + Arity(commandBuffer[i])
              IN  /\ end <= n
                  /\ \A k \in (i + 1)..end : k \notin opcodes
                  /\ end < n => end + 1 \in opcodes

\* arc called without anticlockwise: the omitted argument is the sixth operand
BufferParsesWitness ==
    /\ lastCall.name = "arc"
    /\ lastCall.args[6] = Undefined
    /\ calls = 2
    /\ Len(commandBuffer) >= 8
    /\ commandBuffer[Len(commandBuffer)] = Undefined
    /\ commandBuffer[Len(commandBuffer) - 6] = Commands.ARC

\* the places of the LINE_STYLE opcodes in the command buffer
LineStylePlaces == {i \in 1..Len(commandBuffer) : commandBuffer[i] = Commands.LINE_STYLE}

\* C20: in every reachable state of a drawable that has not been destroyed,
\* the cached line width is the width operand of the last LINE_STYLE in the
\* command buffer, and 1.0 when the buffer has no LINE_STYLE, as after clear()
\* on a drawable without a stroke default.
CachedWidthIsLastLineStyle ==
    ~destroyed =>
        _lineWidth =
            IF LineStylePlaces = {} THEN Num(1)
            ELSE LET last == CHOOSE i \in LineStylePlaces :
                                \A j \in LineStylePlaces : j <= i
                 IN  commandBuffer[last + 1]

\* C21 as stated: replaying the buffer left by clear() puts the renderer's
\* fill style and stroke style at the values that replaying the buffer of
\* right after construction puts them at.
ClearRestoresConstructionStyles ==
    lastCall.name = "clear" =>
        ReplayedStyles(commandBuffer) = ReplayedStyles(constructed.commandBuffer)

\* the five style defaults are the ones the constructor left
DefaultsAsConstructed ==
    StyleDefaults =
        <<constructed.defaultFillColor, constructed.defaultFillAlpha,
          constructed.defaultStrokeWidth, constructed.defaultStrokeColor,
          constructed.defaultStrokeAlpha>>

\* C21 amended: replaying the buffer left by clear() puts the renderer's fill
\* style at the fill default and its stroke style at the stroke default, and
\* leaves unset a style whose default is absent; while the defaults are the
\* ones set at construction these are the styles that replaying the buffer of
\* right after construction gives, for each combination of defaults, although
\* the two buffers hold the style instructions in opposite orders.
ClearRestoresDefaultStyles ==
    lastCall.name = "clear" =>
        /\ ReplayedStyles(commandBuffer) =
              [fill |-> IF FillDefaultSet
                        THEN <<defaultFillColor, defaultFillAlpha>> ELSE <<>>,
               stroke |-> IF StrokeDefaultSet
                          THEN <<defaultStrokeWidth, defaultStrokeColor,
                                 defaultStrokeAlpha>>
                          ELSE <<>>]
        /\ DefaultsAsConstructed =>
              ReplayedStyles(commandBuffer) = ReplayedStyles(constructed.commandBuffer)

\* clear() after a style call on a drawable constructed with both styles: the
\* buffer differs from the one of construction and gives the same styles
ClearBaselineWitness ==
    /\ lastCall.name = "clear"
    /\ calls = 2
    /\ DefaultsAsConstructed
    /\ Len(constructed.commandBuffer) = 7
    /\ commandBuffer # constructed.commandBuffer
    /\ ReplayedStyles(commandBuffer).stroke = <<Num(3), Num(255), Quarters(2)>>
    /\ ReplayedStyles(commandBuffer).fill = <<Num(16777215), Num(1)>>

\* the FILL_PATH or STROKE_PATH at place j of the buffer comes after a
\* BEGIN_PATH, with a MOVE_TO, LINE_TO or ARC between the last one and it
PaintedPathHasGeometry(buffer, j) ==
    LET begins == {i \in 1..(j - 1) : buffer[i] = Commands.BEGIN_PATH}
    IN  /\ begins # {}
        /\ LET begin == CHOOSE i \in begins : \A k \in begins : k <= i
           IN  \E k \in (begin + 1)..(j - 1) :
                  buffer[k] \in {Commands.MOVE_TO, Commands.LINE_TO, Commands.ARC}

\* every FILL_PATH and STROKE_PATH of the command buffer has a path with geometry
PathsHaveGeometry ==
    \A j \in 1..Len(commandBuffer) :
        commandBuffer[j] \in {Commands.FILL_PATH, Commands.STROKE_PATH}
            => PaintedPathHasGeometry(commandBuffer, j)

\* C22: while the buffer holds only what style calls, transform calls and
\* self-contained shape calls (with non-empty point lists) wrote, and nothing
\* from direct path calls such as fillPath and strokePath, every FILL_PATH and
\* STROKE_PATH in it is preceded by a BEGIN_PATH with at least one MOVE_TO,
\* LINE_TO or ARC between that BEGIN_PATH and it.
ComposedPathsHaveGeometry == composed => PathsHaveGeometry

\* two shape calls in a row: five painted paths in the buffer, the last one a circle
ComposedPathsWitness ==
    /\ composed
    /\ calls = 2
    /\ lastCall.name = "strokeCircle"
    /\ Len(commandBuffer) >= 41
    /\ commandBuffer[Len(commandBuffer)] = Commands.STROKE_PATH
    /\ commandBuffer[Len(commandBuffer) - 9] = Commands.STROKE_PATH

\* C23: whenever generateTexture replays the buffer, the shared camera it
\* replays with has the viewport (0, 0, width, height) of that call's width and
\* height (those of the game configuration when omitted) and the scroll
\* position (x, y) of the drawable, whatever an earlier capture left in it.
CaptureCameraSetBeforeReplay ==
    [][(Called("generateTexture") /\ CaptureReplayed) =>
        LET given == lastCall'.args
        IN  replays'[Len(replays')].camera =
                [x |-> Num(0), y |-> Num(0),
                 width |-> IF given[2] = Undefined THEN config.width ELSE given[2],
                 height |-> IF given[3] = Undefined THEN config.height ELSE given[3],
                 scrollX |-> position.x, scrollY |-> position.y]]_vars

\* a capture of the configured size, then one of 8 by 4, by a drawable at (5, 7)
CaptureCameraWitness ==
    /\ lastCall.name = "generateTexture"
    /\ Len(replays) = 2
    /\ replays[1].camera.width = config.width
    /\ replays[2].camera.width = Num(8)
    /\ replays[2].camera.height = Num(4)
    /\ replays[2].camera.scrollX = Num(5)
    /\ replays[2].camera.scrollY = Num(7)

\* C24: clear() is idempotent: after a clear() from any reachable state, a
\* second clear() right after it leaves the command buffer, the five style
\* defaults and the cached line width as the first one left them.
ClearTwiceAsOnce ==
    [][Called("clear") =>
        /\ clear(This)' = This'
        /\ lastCall.name = "clear" =>
              (commandBuffer' = commandBuffer /\ StyleFields(This)' = StyleFields(This))]_vars

\* clear() right after lineStyle(3) on a drawable without defaults: the buffer
\* is empty and the cached width is still 3, and another clear() changes neither
ClearTwiceWitness ==
    /\ lastCall.name = "clear"
    /\ calls = 2
    /\ ~FillDefaultSet
    /\ ~StrokeDefaultSet
    /\ commandBuffer = <<>>
    /\ _lineWidth = Num(3)
    /\ clear(This) = This

\* the number of instructions with this opcode in the command buffer
Count(command) ==
    Cardinality({i \in 1..Len(commandBuffer) : commandBuffer[i] = command})

\* C25: restore() appends exactly one RESTORE and raises no error in every
\* state, also when the buffer holds no more SAVE than RESTORE instructions;
\* save(), translate(x, y), scale(x, y) and rotate(r) each append exactly their
\* one instruction SAVE, TRANSLATE x y, SCALE x y, ROTATE r, whatever the
\* buffer holds.
TransformCallsAppendOne ==
    [][lastCall'.name \in {"save", "restore", "translate", "scale", "rotate"} =>
        LET a == lastCall'.args
        IN  /\ lastCall'.error = ""
            /\ IsPrefix(commandBuffer, commandBuffer')
            /\ Appended =
                 CASE Called("save") -> <<Commands.SAVE>>
                   [] Called("restore") -> <<Commands.RESTORE>>
                   [] Called("translate") -> <<Commands.TRANSLATE, a[1], a[2]>>
                   [] Called("scale") -> <<Commands.SCALE, a[1], a[2]>>
                   [] Called("rotate") -> <<Commands.ROTATE, a[1]>>]_vars

\* restore() twice on a buffer without a SAVE: two RESTORE instructions written
UnbalancedRestoreWitness ==
    /\ lastCall.name = "restore"
    /\ lastCall.error = ""
    /\ calls = 2
    /\ Count(Commands.SAVE) = 0
    /\ Count(Commands.RESTORE) = 2
    /\ commandBuffer[Len(commandBuffer)] = Commands.RESTORE

====
